---- MODULE Spec2Model ----
(***************************************************************************)
(* The task service of simple-todo-app: the tasks table, the four request  *)
(* handlers (createTask, getTasks, updateTask, deleteTask) and the input   *)
(* schemas that guard them.                                                *)
(***************************************************************************)
EXTENDS Integers, Sequences, FiniteSets, TLC

\* ------------------------------------------------------------------ bounds
MaxTasks == 3      \* rows the serial id column hands out before the model stops creating
MaxTime  == 3      \* last clock value (milliseconds since the start)
MaxCalls == 3      \* trpc calls the page makes, the loadTasks of its mount included

\* ------------------------------------------------------------------- state
VARIABLES
    tasksTable,    \* the stored rows of the tasks table
    nextId,        \* the serial counter behind the id column
    now,           \* the clock read by new Date() and by the table's timestamp defaults
    ret,           \* the response of the last request: operation, input, outcome, value
    createdIds,    \* history: the ids createTask has returned so far
    deletedIds,    \* history: the ids of stored tasks for which deleteTask answered success
    inflight,      \* requests that arrived together and are not served yet
    done,          \* the answers to the requests that arrived together
    snapshot,      \* the rows stored when those requests arrived
    tasks,         \* App: the task list the page holds (useState<Task[]>)
    isLoading,     \* App: loadTasks is running
    isCreating,    \* App: handleSubmit is running
    formData,      \* App: the content of the create form
    calls,         \* App: the trpc calls the page has made
    nextCall       \* the number the next trpc call gets

serverVars == <<tasksTable, nextId, now, ret, createdIds>>
concVars   == <<inflight, done, snapshot>>
clientVars == <<tasks, isLoading, isCreating, formData, calls, nextCall>>
vars       == <<serverVars, deletedIds, concVars, clientVars>>

\* ------------------------------------------------------- JavaScript values
Undefined == [tag |-> "undefined"]
Null      == [tag |-> "null"]
Str(s)    == [tag |-> "string", value |-> s]
Num(n)    == [tag |-> "number", value |-> n]

\* `??` in place of `||`: only undefined and null are skipped
isFalsy_Nullish(v) == v.tag \in {"undefined", "null"}

\* a value that `||` skips: undefined, null, the empty string, 0
isFalsy(v) ==
    \/ v.tag \in {"undefined", "null"}
    \/ v.tag = "string" /\ v.value = ""
    \/ v.tag = "number" /\ v.value = 0

\* a || b
Or(a, b) == IF isFalsy(a) THEN b ELSE a

\* ------------------------------------------------------------------ inputs
Titles       == {Undefined, Str(""), Str("a")}
Descriptions == {Undefined, Null, Str(""), Str("d"), Num(7)}
CreateInputs == [title : Titles, description : Descriptions]
Ids          == 1..(MaxTasks + 1)
UpdateInputs == [id : Ids, completed : BOOLEAN]
DeleteInputs == [id : Ids]
NoInput      == [none |-> TRUE]

\* ----------------------------------------------------------------- schemas
\* title: z.string().min(1); description: z.string().nullable().optional()
createTaskInputSchema_NoMin(input) ==
    /\ input.title.tag = "string"
    /\ input.description.tag \in {"string", "null", "undefined"}

createTaskInputSchema(input) ==
    /\ input.title.tag = "string"
    /\ Len(input.title.value) >= 1
    /\ input.description.tag \in {"string", "null", "undefined"}

\* ------------------------------------------------------------ the table
stored(id) == \E t \in tasksTable : t.id = id
row(id)    == CHOOSE t \in tasksTable : t.id = id

\* insert(...).values(v).returning(): the id comes from the serial column,
\* created_at and updated_at from the column defaults (the statement's time)
insertReturning(v) ==
    [id          |-> nextId,
     title       |-> v.title,
     description |-> v.description,
     completed   |-> v.completed,
     created_at  |-> now,
     updated_at  |-> now]

\* ---------------------------------------------------------------- handlers
createTaskValues_Completed(input) ==
    [title       |-> input.title.value,
     description |-> Or(input.description, Null),
     completed   |-> TRUE]

\* description: input.description || '' in place of || null
createTaskValues_EmptyDesc(input) ==
    [title       |-> input.title.value,
     description |-> Or(input.description, Str("")),
     completed   |-> FALSE]

\* the values createTask hands to insert
createTaskValues(input) ==
    [title       |-> input.title.value,
     description |-> Or(input.description, Null),
     completed   |-> FALSE]

\* createTask of part_001: a fabricated Task with a random id, nothing inserted
createTask_Placeholder(input) ==
    \E id \in 0..MaxTasks :
        /\ ret' = [op |-> "createTask", input |-> input, status |-> "ok",
                   value |-> [id          |-> id,
                              title       |-> input.title.value,
                              description |-> Or(input.description, Null),
                              completed   |-> FALSE,
                              created_at  |-> now,
                              updated_at  |-> now]]
        /\ createdIds' = createdIds \cup {id}
        /\ UNCHANGED <<tasksTable, nextId, now>>

\* createTask whose insert replaces the table's rows by the new one
createTask_Overwrite(input) ==
    /\ nextId <= MaxTasks
    /\ LET task == insertReturning(createTaskValues(input)) IN
         /\ tasksTable' = {task}
         /\ ret' = [op |-> "createTask", input |-> input, status |-> "ok", value |-> task]
         /\ createdIds' = createdIds \cup {task.id}
    /\ nextId' = nextId + 1
    /\ UNCHANGED now

\* createTask that passes updated_at: new Date(0) along with the values
createTask_EpochUpdatedAt(input) ==
    /\ nextId <= MaxTasks
    /\ LET task == [insertReturning(createTaskValues(input)) EXCEPT !.updated_at = 0] IN
         /\ tasksTable' = tasksTable \cup {task}
         /\ ret' = [op |-> "createTask", input |-> input, status |-> "ok", value |-> task]
         /\ createdIds' = createdIds \cup {task.id}
    /\ nextId' = nextId + 1
    /\ UNCHANGED now

\* createTask: one insert, result[0] returned; a storage failure is logged and rethrown
createTask(input) ==
    \/ /\ nextId <= MaxTasks
       /\ LET task == insertReturning(createTaskValues(input)) IN
            /\ tasksTable' = tasksTable \cup {task}
            /\ ret' = [op |-> "createTask", input |-> input, status |-> "ok", value |-> task]
            /\ createdIds' = createdIds \cup {task.id}
       /\ nextId' = nextId + 1
       /\ UNCHANGED now
    \/ /\ ret' = [op |-> "createTask", input |-> input, status |-> "StorageError",
                  value |-> NoInput]
       /\ UNCHANGED <<tasksTable, nextId, now, createdIds>>

\* what updateTask answers when the table holds `rows` and its two clock reads give
\* t1 and t2: a Task built from the input alone
updateTaskAnswer(input, rows, t1, t2) ==
    [status |-> "ok",
     value  |-> [id          |-> input.id,
                 title       |-> "Placeholder Task",
                 description |-> Null,
                 completed   |-> input.completed,
                 created_at  |-> t1,
                 updated_at  |-> t2]]

\* an update statement without its where clause: every row gets the new completed
updateTaskRows_AllRows(input, rows) ==
    {[t EXCEPT !.completed = input.completed] : t \in rows}

\* the rows updateTask leaves in a table holding `rows`: it issues no statement
updateTaskRows(input, rows) == rows

\* updateTask: the handler answers with a Task built from its input and two clock
\* reads; it does not read or write the table
updateTask(input) ==
    \E d \in 0..1 :
        /\ now + d <= MaxTime
        /\ now' = now + d
        /\ LET answer == updateTaskAnswer(input, tasksTable, now, now + d) IN
             ret' = [op |-> "updateTask", input |-> input,
                     status |-> answer.status, value |-> answer.value]
        /\ tasksTable' = updateTaskRows(input, tasksTable)
        /\ UNCHANGED <<nextId, createdIds>>

\* what deleteTask answers when the table holds `rows`
deleteTaskAnswer(input, rows) == [status |-> "ok", value |-> [success |-> TRUE]]

\* the rows deleteTask leaves in a table holding `rows`: it issues no statement
deleteTaskRows(input, rows) == rows

\* deleteTask: the handler answers {success: true}; it does not read or write the table
deleteTask(input) ==
    /\ LET answer == deleteTaskAnswer(input, tasksTable) IN
         ret' = [op |-> "deleteTask", input |-> input,
                 status |-> answer.status, value |-> answer.value]
    /\ tasksTable' = deleteTaskRows(input, tasksTable)
    /\ UNCHANGED <<nextId, now, createdIds>>

\* the orders in which a select may return the rows of S
Orderings(S) ==
    {s \in [1..Cardinality(S) -> S] : \A i, j \in 1..Cardinality(S) : i # j => s[i] # s[j]}

\* ORDER BY created_at DESC, ascending instead
sortedByCreatedAt_Asc(s) ==
    \A i, j \in 1..Len(s) : i < j => s[i].created_at <= s[j].created_at

\* ORDER BY created_at DESC: rows with the same created_at in any order
sortedByCreatedAt(s) ==
    \A i, j \in 1..Len(s) : i < j => s[i].created_at >= s[j].created_at

\* getTasks that stamps the rows it reads
getTasks_Touch ==
    \E s \in Orderings(tasksTable) :
        /\ sortedByCreatedAt(s)
        /\ ret' = [op |-> "getTasks", input |-> NoInput, status |-> "ok",
                   value |-> [tasks |-> s]]
        /\ tasksTable' = {[t EXCEPT !.updated_at = now] : t \in tasksTable}
        /\ UNCHANGED <<nextId, now, createdIds>>

\* getTasks: every stored row, newest first
getTasks ==
    \E s \in Orderings(tasksTable) :
        /\ sortedByCreatedAt(s)
        /\ ret' = [op |-> "getTasks", input |-> NoInput, status |-> "ok",
                   value |-> [tasks |-> s]]
        /\ UNCHANGED <<tasksTable, nextId, now, createdIds>>

\* ---------------------------------------------------------------- requests
\* request -> validate -> handler -> response
CreateTaskRequest(input) ==
    IF createTaskInputSchema(input)
    THEN createTask(input)
    ELSE /\ ret' = [op |-> "createTask", input |-> input, status |-> "ValidationError",
                    value |-> NoInput]
         /\ UNCHANGED <<tasksTable, nextId, now, createdIds>>

GetTasksRequest == getTasks

UpdateTaskRequest(input) == updateTask(input)

DeleteTaskRequest(input) == deleteTask(input)

\* time passes between requests
Tick ==
    /\ now < MaxTime
    /\ now' = now + 1
    /\ UNCHANGED <<tasksTable, nextId, ret, createdIds>>

Init ==
    /\ tasksTable = {}
    /\ nextId = 1
    /\ now = 0
    /\ ret = [op |-> "none", input |-> NoInput, status |-> "ok", value |-> NoInput]
    /\ createdIds = {}
    /\ deletedIds = {}
    /\ inflight = {}
    /\ done = {}
    /\ snapshot = {}
    /\ tasks = <<>>
    /\ isLoading = FALSE
    /\ isCreating = FALSE
    /\ formData = [title |-> "", description |-> Null]
    /\ calls = {}
    /\ nextCall = 1

\* ------------------------------------------------ the service, one request at a time
Next ==
    \/ (\E input \in CreateInputs : CreateTaskRequest(input)) /\ UNCHANGED <<deletedIds, concVars, clientVars>>
    \/ GetTasksRequest /\ UNCHANGED <<deletedIds, concVars, clientVars>>
    \/ (\E input \in UpdateInputs : UpdateTaskRequest(input)) /\ UNCHANGED <<deletedIds, concVars, clientVars>>
    \/ (\E input \in DeleteInputs : DeleteTaskRequest(input)) /\ UNCHANGED <<deletedIds, concVars, clientVars>>
    \/ Tick /\ UNCHANGED <<deletedIds, concVars, clientVars>>

Spec == Init /\ [][Next]_vars

\* ------------------------------------------- the service with its deletions recorded
\* a deleteTask request, remembering the id when a stored task's deletion is answered
\* with success
DeleteTaskRecorded(input) ==
    /\ DeleteTaskRequest(input)
    /\ deletedIds' = IF stored(input.id) /\ ret'.status = "ok" /\ ret'.value.success
                     THEN deletedIds \cup {input.id}
                     ELSE deletedIds
    /\ UNCHANGED <<concVars, clientVars>>

NextDeleted ==
    \/ (\E input \in CreateInputs : CreateTaskRequest(input)) /\ UNCHANGED <<deletedIds, concVars, clientVars>>
    \/ GetTasksRequest /\ UNCHANGED <<deletedIds, concVars, clientVars>>
    \/ (\E input \in UpdateInputs : UpdateTaskRequest(input)) /\ UNCHANGED <<deletedIds, concVars, clientVars>>
    \/ \E input \in DeleteInputs : DeleteTaskRecorded(input)
    \/ Tick /\ UNCHANGED <<deletedIds, concVars, clientVars>>

SpecDeleted == Init /\ [][NextDeleted]_vars

\* ------------------------------------- two update or delete requests arriving together
ConcCreateInputs == [title : {Str("a")}, description : {Null, Str("d")}]
ConcRequests ==
    [op : {"updateTask"}, input : UpdateInputs] \cup [op : {"deleteTask"}, input : DeleteInputs]

\* tasks are created before the two requests arrive
ConcCreate ==
    /\ inflight = {}
    /\ done = {}
    /\ \E input \in ConcCreateInputs : CreateTaskRequest(input)
    /\ UNCHANGED <<deletedIds, concVars, clientVars>>

\* two different requests arrive before either is served
IssuePair ==
    /\ inflight = {}
    /\ done = {}
    /\ \E a, b \in ConcRequests :
           /\ a # b
           /\ inflight' = {a, b}
    /\ snapshot' = tasksTable
    /\ UNCHANGED <<serverVars, deletedIds, done, clientVars>>

\* the handlers have no await before they answer: one request is served in one step
ServeUpdate(req) ==
    /\ req \in inflight
    /\ req.op = "updateTask"
    /\ UpdateTaskRequest(req.input)
    /\ inflight' = inflight \ {req}
    /\ done' = done \cup {[req |-> req, status |-> ret'.status, value |-> ret'.value]}
    /\ UNCHANGED <<deletedIds, snapshot, clientVars>>

ServeDelete(req) ==
    /\ req \in inflight
    /\ req.op = "deleteTask"
    /\ DeleteTaskRequest(req.input)
    /\ inflight' = inflight \ {req}
    /\ done' = done \cup {[req |-> req, status |-> ret'.status, value |-> ret'.value]}
    /\ UNCHANGED <<deletedIds, snapshot, clientVars>>

ConcTick == Tick /\ UNCHANGED <<deletedIds, concVars, clientVars>>

NextConc ==
    \/ ConcCreate
    \/ IssuePair
    \/ \E req \in ConcRequests : ServeUpdate(req)
    \/ \E req \in ConcRequests : ServeDelete(req)
    \/ ConcTick

SpecConc == Init /\ [][NextConc]_vars

\* ------------------------------------------------------------------ the page (App)
FormTitles       == {"", " ", "a"}
FormDescriptions == {"", "d"}

\* String.prototype.trim on the titles the form can hold
trim(s) == IF s = " " THEN "" ELSE s

emptyForm == [title |-> "", description |-> Null]

\* a trpc call that was just made; calls keeps every call of the page, and `handled`
\* tells that the handler's code after its await has run
newCall(op, input) ==
    [rid |-> nextCall, op |-> op, input |-> input,
     phase |-> "sent", status |-> "none", value |-> NoInput, handled |-> FALSE]

\* the title input's onChange
handleTitleChange(text) ==
    /\ formData' = [formData EXCEPT !.title = text]
    /\ UNCHANGED <<tasks, isLoading, isCreating, calls, nextCall>>

\* the description textarea's onChange: e.target.value || null
handleDescriptionChange(text) ==
    /\ formData' = [formData EXCEPT !.description = Or(Str(text), Null)]
    /\ UNCHANGED <<tasks, isLoading, isCreating, calls, nextCall>>

\* handleSubmit up to its await; the submit button is disabled while isCreating or
\* while the trimmed title is empty
handleSubmit ==
    /\ ~isCreating
    /\ trim(formData.title) # ""
    /\ nextCall <= MaxCalls
    /\ isCreating' = TRUE
    /\ calls' = calls \cup {newCall("createTask", [title       |-> Str(formData.title),
                                                   description |-> formData.description])}
    /\ nextCall' = nextCall + 1
    /\ UNCHANGED <<tasks, isLoading, formData>>

\* handleSubmit after its await: the response goes to the front of the list and the
\* form is reset; a rejection is logged; finally isCreating is cleared
handleSubmitSettled(call) ==
    /\ call \in calls
    /\ call.op = "createTask"
    /\ call.phase \in {"answered", "rejected"}
    /\ ~call.handled
    /\ IF call.phase = "answered"
       THEN /\ tasks' = <<call.value>> \o tasks
            /\ formData' = emptyForm
       ELSE UNCHANGED <<tasks, formData>>
    /\ isCreating' = FALSE
    /\ calls' = (calls \ {call}) \cup {[call EXCEPT !.handled = TRUE]}
    /\ UNCHANGED <<isLoading, nextCall>>

\* handleToggleComplete(task.id, task.completed) up to its await, from the checkbox of
\* a listed task (the list is not rendered while isLoading)
handleToggleComplete(i) ==
    /\ ~isLoading
    /\ i \in 1..Len(tasks)
    /\ nextCall <= MaxCalls
    /\ calls' = calls \cup {newCall("updateTask", [id        |-> tasks[i].id,
                                                   completed |-> ~tasks[i].completed])}
    /\ nextCall' = nextCall + 1
    /\ UNCHANGED <<tasks, isLoading, isCreating, formData>>

\* handleToggleComplete after its await: the listed task with that id gets the new
\* completed and the response's updated_at; a rejection is logged
handleToggleCompleteSettled(call) ==
    /\ call \in calls
    /\ call.op = "updateTask"
    /\ call.phase \in {"answered", "rejected"}
    /\ ~call.handled
    /\ IF call.phase = "answered"
       THEN tasks' = [i \in 1..Len(tasks) |->
                        IF tasks[i].id = call.input.id
                        THEN [tasks[i] EXCEPT !.completed = call.input.completed,
                                              !.updated_at = call.value.updated_at]
                        ELSE tasks[i]]
       ELSE UNCHANGED tasks
    /\ calls' = (calls \ {call}) \cup {[call EXCEPT !.handled = TRUE]}
    /\ UNCHANGED <<isLoading, isCreating, formData, nextCall>>

\* handleDeleteTask(task.id) up to its await, from the dialog of a listed task
handleDeleteTask(i) ==
    /\ ~isLoading
    /\ i \in 1..Len(tasks)
    /\ nextCall <= MaxCalls
    /\ calls' = calls \cup {newCall("deleteTask", [id |-> tasks[i].id])}
    /\ nextCall' = nextCall + 1
    /\ UNCHANGED <<tasks, isLoading, isCreating, formData>>

\* the list without the tasks with this id
withoutTask(list, id) == SelectSeq(list, LAMBDA t : t.id # id)

\* handleDeleteTask that removes the task whatever the result says
handleDeleteTaskSettled_NoCheck(call) ==
    /\ call \in calls
    /\ call.op = "deleteTask"
    /\ call.phase \in {"answered", "rejected"}
    /\ ~call.handled
    /\ IF call.phase = "answered"
       THEN tasks' = withoutTask(tasks, call.input.id)
       ELSE UNCHANGED tasks
    /\ calls' = (calls \ {call}) \cup {[call EXCEPT !.handled = TRUE]}
    /\ UNCHANGED <<isLoading, isCreating, formData, nextCall>>

\* handleDeleteTask after its await: on result.success the task leaves the list; a
\* rejection is logged
handleDeleteTaskSettled(call) ==
    /\ call \in calls
    /\ call.op = "deleteTask"
    /\ call.phase \in {"answered", "rejected"}
    /\ ~call.handled
    /\ IF call.phase = "answered" /\ call.value.success
       THEN tasks' = withoutTask(tasks, call.input.id)
       ELSE UNCHANGED tasks
    /\ calls' = (calls \ {call}) \cup {[call EXCEPT !.handled = TRUE]}
    /\ UNCHANGED <<isLoading, isCreating, formData, nextCall>>

\* loadTasks after its await: the result replaces the list; a rejection is logged;
\* finally isLoading is cleared
loadTasksSettled(call) ==
    /\ call \in calls
    /\ call.op = "getTasks"
    /\ call.phase \in {"answered", "rejected"}
    /\ ~call.handled
    /\ IF call.phase = "answered"
       THEN tasks' = call.value.tasks
       ELSE UNCHANGED tasks
    /\ isLoading' = FALSE
    /\ calls' = (calls \ {call}) \cup {[call EXCEPT !.handled = TRUE]}
    /\ UNCHANGED <<isCreating, formData, nextCall>>

\* the page after its mount: useEffect has called loadTasks, which set isLoading and
\* awaits trpc.getTasks.query()
InitClient ==
    /\ tasksTable = {}
    /\ nextId = 1
    /\ now = 0
    /\ ret = [op |-> "none", input |-> NoInput, status |-> "ok", value |-> NoInput]
    /\ createdIds = {}
    /\ deletedIds = {}
    /\ inflight = {}
    /\ done = {}
    /\ snapshot = {}
    /\ tasks = <<>>
    /\ isLoading = TRUE
    /\ isCreating = FALSE
    /\ formData = emptyForm
    /\ calls = {[rid |-> 1, op |-> "getTasks", input |-> NoInput,
                 phase |-> "sent", status |-> "none", value |-> NoInput, handled |-> FALSE]}
    /\ nextCall = 2

\* what the page does, whoever answers its calls
PageStep ==
    \/ (\E text \in FormTitles : handleTitleChange(text)) /\ UNCHANGED <<serverVars, deletedIds, concVars>>
    \/ (\E text \in FormDescriptions : handleDescriptionChange(text)) /\ UNCHANGED <<serverVars, deletedIds, concVars>>
    \/ handleSubmit /\ UNCHANGED <<serverVars, deletedIds, concVars>>
    \/ (\E i \in 1..Len(tasks) : handleToggleComplete(i)) /\ UNCHANGED <<serverVars, deletedIds, concVars>>
    \/ (\E i \in 1..Len(tasks) : handleDeleteTask(i)) /\ UNCHANGED <<serverVars, deletedIds, concVars>>
    \/ (\E call \in calls : handleSubmitSettled(call)) /\ UNCHANGED <<serverVars, deletedIds, concVars>>
    \/ (\E call \in calls : handleToggleCompleteSettled(call)) /\ UNCHANGED <<serverVars, deletedIds, concVars>>
    \/ (\E call \in calls : handleDeleteTaskSettled(call)) /\ UNCHANGED <<serverVars, deletedIds, concVars>>
    \/ (\E call \in calls : loadTasksSettled(call)) /\ UNCHANGED <<serverVars, deletedIds, concVars>>

\* the call with its promise settled by the server's response
settledBy(call, response) ==
    [call EXCEPT !.phase  = IF response.status = "ok" THEN "answered" ELSE "rejected",
                 !.status = response.status,
                 !.value  = response.value]

\* the call's promise rejects: the request or its response is lost on the way
RejectCall(call) ==
    /\ call \in calls
    /\ call.phase \in {"sent", "answered"}
    /\ ~call.handled
    /\ calls' = (calls \ {call}) \cup
                {[call EXCEPT !.phase = "rejected", !.status = "TransportError",
                              !.value = NoInput]}
    /\ UNCHANGED <<tasks, isLoading, isCreating, formData, nextCall>>

\* -------------------------------------------------- the page against the service
\* the service handles one call of the page
ServeCall(call) ==
    /\ call \in calls
    /\ call.phase = "sent"
    /\ \/ call.op = "getTasks" /\ GetTasksRequest
       \/ call.op = "createTask" /\ CreateTaskRequest(call.input)
       \/ call.op = "updateTask" /\ UpdateTaskRequest(call.input)
       \/ call.op = "deleteTask" /\ DeleteTaskRequest(call.input)
    /\ calls' = (calls \ {call}) \cup {settledBy(call, ret')}
    /\ UNCHANGED <<tasks, isLoading, isCreating, formData, nextCall>>

NextApp ==
    \/ PageStep
    \/ (\E call \in calls : ServeCall(call)) /\ UNCHANGED <<deletedIds, concVars>>
    \/ (\E call \in calls : RejectCall(call)) /\ UNCHANGED <<serverVars, deletedIds, concVars>>
    \/ Tick /\ UNCHANGED <<deletedIds, concVars, clientVars>>

SpecApp == InitClient /\ [][NextApp]_vars

\* --------------------------------------- the page against any well-typed responses
AnyTasks ==
    [id : 1..2, title : {"a"}, description : {Null}, completed : BOOLEAN,
     created_at : {0}, updated_at : {0}]
AnyLists == {<<>>} \cup {<<t>> : t \in AnyTasks}

\* the responses a procedure's return type allows
AnyResponses(op) ==
    IF op = "getTasks" THEN {[status |-> "ok", value |-> [tasks |-> s]] : s \in AnyLists}
    ELSE IF op = "deleteTask"
         THEN {[status |-> "ok", value |-> [success |-> b]] : b \in BOOLEAN}
         ELSE {[status |-> "ok", value |-> t] : t \in AnyTasks}

\* the call's promise resolves with some response of the procedure's type
AnswerCall(call) ==
    /\ call \in calls
    /\ call.phase = "sent"
    /\ \E response \in AnyResponses(call.op) : calls' = (calls \ {call}) \cup {settledBy(call, response)}
    /\ UNCHANGED <<tasks, isLoading, isCreating, formData, nextCall>>

NextClient ==
    \/ PageStep
    \/ (\E call \in calls : AnswerCall(call)) /\ UNCHANGED <<serverVars, deletedIds, concVars>>
    \/ (\E call \in calls : RejectCall(call)) /\ UNCHANGED <<serverVars, deletedIds, concVars>>

SpecClient == InitClient /\ [][NextClient]_vars

\* ------------------------------------------------------------------ claims
\* the stored row with this id after the step
rowAfter(id) == CHOOSE t \in tasksTable' : t.id = id

\* C1: updateTask with an id for which no task is stored fails with a NotFoundError
\* naming that id, returns no Task, and leaves the table as it was.
C1_UpdateMissingIdFails ==
    [][\A input \in UpdateInputs :
          (UpdateTaskRequest(input) /\ ~stored(input.id))
              => /\ ret'.op = "updateTask"
                 /\ ret'.status = "NotFoundError"
                 /\ ret'.input.id = input.id
                 /\ tasksTable' = tasksTable]_vars

\* C2: deleteTask with an id for which no task is stored returns {success: false},
\* raises no error, and leaves the table as it was.
C2_DeleteMissingIdReturnsFalse ==
    [][\A input \in DeleteInputs :
          (DeleteTaskRequest(input) /\ ~stored(input.id))
              => /\ ret'.op = "deleteTask"
                 /\ ret'.status = "ok"
                 /\ ret'.value = [success |-> FALSE]
                 /\ tasksTable' = tasksTable]_vars

\* C3: deleteTask with the id of a stored task removes exactly that row and returns
\* {success: true}; every other stored row is unchanged.
C3_DeleteRemovesExactlyThatRow ==
    [][\A input \in DeleteInputs :
          (DeleteTaskRequest(input) /\ stored(input.id))
              => /\ ret'.status = "ok"
                 /\ ret'.value = [success |-> TRUE]
                 /\ tasksTable' = tasksTable \ {row(input.id)}]_vars

\* C4: updateTask with the id of a stored task sets that row's completed to the
\* supplied value and returns that row; the row's id, title, description and
\* created_at are as before, and no other stored row is changed.
C4_UpdateSetsCompletedOnly ==
    [][\A input \in UpdateInputs :
          (UpdateTaskRequest(input) /\ stored(input.id))
              => /\ ret'.status = "ok"
                 /\ \E t \in tasksTable' : t.id = input.id
                 /\ rowAfter(input.id).completed = input.completed
                 /\ ret'.value = rowAfter(input.id)
                 /\ rowAfter(input.id).title = row(input.id).title
                 /\ rowAfter(input.id).description = row(input.id).description
                 /\ rowAfter(input.id).created_at = row(input.id).created_at
                 /\ tasksTable' \ {rowAfter(input.id)} = tasksTable \ {row(input.id)}]_vars

\* C9: every successful updateTask on a stored task leaves the stored task with an
\* updated_at strictly greater than the one it had before the call.
C9_UpdateAdvancesUpdatedAt ==
    [][\A input \in UpdateInputs :
          (UpdateTaskRequest(input) /\ stored(input.id) /\ ret'.status = "ok")
              => /\ \E t \in tasksTable' : t.id = input.id
                 /\ rowAfter(input.id).updated_at > row(input.id).updated_at]_vars

\* C5: every createTask call returns an id different from every id an earlier
\* createTask returned, whatever requests came in between; two consecutive creates
\* return distinct ids and both tasks are stored.
C5_CreatedIdsNeverRepeat ==
    [][\A input \in CreateInputs :
          (CreateTaskRequest(input) /\ ret'.status = "ok")
              => /\ ret'.value.id \notin createdIds
                 /\ \A t \in tasksTable : t.id # ret'.value.id
                 /\ (ret.op = "createTask" /\ ret.status = "ok")
                        => /\ ret'.value.id # ret.value.id
                           /\ \E t \in tasksTable' : t.id = ret.value.id
                           /\ \E t \in tasksTable' : t.id = ret'.value.id]_vars

\* a third create has just returned, later than a row stored before it
C5_Witness ==
    /\ ret.op = "createTask"
    /\ ret.status = "ok"
    /\ Cardinality(createdIds) >= 3
    /\ \E t \in tasksTable : t.created_at < ret.value.created_at

\* C6: the Task a valid createTask returns has completed = false and created_at equal
\* to updated_at, and the row stored under its id holds the same values.
C6_CreatedTaskDefaults ==
    (ret.op = "createTask" /\ ret.status = "ok")
        => /\ createTaskInputSchema(ret.input)
           /\ ret.value.completed = FALSE
           /\ ret.value.created_at = ret.value.updated_at
           /\ stored(ret.value.id)
           /\ row(ret.value.id) = ret.value
           /\ Cardinality({t \in tasksTable : t.id = ret.value.id}) = 1

C6_Witness ==
    /\ ret.op = "createTask"
    /\ ret.status = "ok"
    /\ ret.input.description = Str("d")
    /\ ret.value.created_at > 0
    /\ ret.value \in tasksTable

\* C7: getTasks returns every stored task, each exactly once, newest created_at
\* first; with no task stored it returns the empty sequence and no error.
C7_GetTasksAllNewestFirst ==
    ret.op = "getTasks"
        => /\ ret.status = "ok"
           /\ {ret.value.tasks[i] : i \in 1..Len(ret.value.tasks)} = tasksTable
           /\ Len(ret.value.tasks) = Cardinality(tasksTable)
           /\ \A i, j \in 1..Len(ret.value.tasks) :
                  ret.value.tasks[i].created_at > ret.value.tasks[j].created_at => i < j
           /\ (tasksTable = {} => ret.value.tasks = <<>>)

C7_Witness ==
    /\ ret.op = "getTasks"
    /\ Len(ret.value.tasks) >= 3
    /\ ret.value.tasks[1].created_at > ret.value.tasks[2].created_at
    /\ ret.value.tasks[2].created_at = ret.value.tasks[3].created_at

\* C8: createTask with an empty or absent title fails with a ValidationError and
\* storage is not touched: no row is inserted, the table and the id counter stay.
C8_EmptyTitleRejected ==
    [][\A input \in CreateInputs :
          (CreateTaskRequest(input) /\ input.title \in {Undefined, Str("")})
              => /\ ret'.op = "createTask"
                 /\ ret'.status = "ValidationError"
                 /\ tasksTable' = tasksTable
                 /\ nextId' = nextId]_vars

C8_Witness ==
    /\ ret.op = "createTask"
    /\ ret.status = "ValidationError"
    /\ ret.input.title = Str("")
    /\ ret.input.description = Str("d")
    /\ tasksTable # {}

\* C10: a successful createTask adds exactly one row to the table, the row it
\* returns, and leaves every row stored before unchanged.
C10_CreateAddsOneRow ==
    [][\A input \in CreateInputs :
          (CreateTaskRequest(input) /\ ret'.status = "ok")
              => /\ ret'.value \notin tasksTable
                 /\ tasksTable' = tasksTable \cup {ret'.value}
                 /\ Cardinality(tasksTable') = Cardinality(tasksTable) + 1]_vars

C10_Witness ==
    /\ ret.op = "createTask"
    /\ ret.status = "ok"
    /\ ret.value \in tasksTable
    /\ Cardinality(tasksTable) >= 2
\* C11: createTask called with description null or with description absent stores and
\* returns description = null in both cases, and the getTasks that follows returns
\* that task with description = null.
C11_NullDescriptionRoundTrip ==
    [][/\ \A input \in CreateInputs :
             (CreateTaskRequest(input) /\ ret'.status = "ok"
                  /\ input.description \in {Undefined, Null})
                 => /\ ret'.value.description = Null
                    /\ \E t \in tasksTable' : t.id = ret'.value.id /\ t.description = Null
       /\ (ret.op = "createTask" /\ ret.status = "ok"
               /\ ret.input.description \in {Undefined, Null} /\ GetTasksRequest)
             => \E i \in 1..Len(ret'.value.tasks) :
                    /\ ret'.value.tasks[i].id = ret.value.id
                    /\ ret'.value.tasks[i].description = Null]_vars

\* a list holding a task created without description next to one created with one
C11_Witness ==
    /\ ret.op = "getTasks"
    /\ \E i \in 1..Len(ret.value.tasks) : ret.value.tasks[i].description = Null
    /\ \E i \in 1..Len(ret.value.tasks) : ret.value.tasks[i].description = Str("d")

\* C12: in every reachable state every stored task has created_at <= updated_at.
C12_CreatedNotAfterUpdated ==
    \A t \in tasksTable : t.created_at <= t.updated_at

\* a task created after the clock started, with an updateTask on it just answered
C12_Witness ==
    /\ ret.op = "updateTask"
    /\ stored(ret.input.id)
    /\ row(ret.input.id).created_at > 0
    /\ now > row(ret.input.id).created_at

\* C14: getTasks leaves the stored table as it was: the same rows, every field of
\* every row, updated_at included.
C14_GetTasksReadOnly ==
    [][GetTasksRequest => (tasksTable' = tasksTable /\ nextId' = nextId)]_vars

\* a list of two rows read after the clock moved past their creation
C14_Witness ==
    /\ ret.op = "getTasks"
    /\ Len(ret.value.tasks) >= 2
    /\ \A t \in tasksTable : t.updated_at < now

\* C18: updateTask on a stored task with completed equal to the task's current value
\* leaves completed as it is and sets the stored updated_at to the current time.
C18_UpdateAlwaysRefreshesUpdatedAt ==
    [][\A input \in UpdateInputs :
          (UpdateTaskRequest(input) /\ stored(input.id)
               /\ row(input.id).completed = input.completed)
              => /\ \E t \in tasksTable' : t.id = input.id
                 /\ rowAfter(input.id).completed = input.completed
                 /\ rowAfter(input.id).updated_at >= now
                 /\ rowAfter(input.id).updated_at <= now']_vars

\* C19: createTask with a non-empty title and description "" stores and returns
\* description = null, as for an absent or null description; no stored row ever has
\* the empty string as its description.
C19_EmptyDescriptionStoredAsNull ==
    /\ \A t \in tasksTable : t.description # Str("")
    /\ (ret.op = "createTask" /\ ret.status = "ok" /\ ret.input.description = Str(""))
           => /\ ret.value.description = Null
              /\ stored(ret.value.id)
              /\ row(ret.value.id).description = Null

C19_Witness ==
    /\ ret.op = "createTask"
    /\ ret.status = "ok"
    /\ ret.input.description = Str("")
    /\ ret.value \in tasksTable
\* C13: once deleteTask has answered {success: true} for the id of a stored task, in
\* every later state getTasks returns no task with that id, updateTask on that id
\* fails with NotFoundError, and deleteTask on that id answers {success: false}.
C13_DeletionIsPermanent ==
    [][\A id \in deletedIds :
          /\ GetTasksRequest
                 => \A i \in 1..Len(ret'.value.tasks) : ret'.value.tasks[i].id # id
          /\ \A c \in BOOLEAN :
                 UpdateTaskRequest([id |-> id, completed |-> c])
                     => ret'.status = "NotFoundError"
          /\ DeleteTaskRequest([id |-> id])
                 => (ret'.status = "ok" /\ ret'.value = [success |-> FALSE])]_vars
\* the rows a request leaves when it is served alone on `rows`
rowsAfter(req, rows) ==
    IF req.op = "updateTask"
    THEN updateTaskRows(req.input, rows)
    ELSE deleteTaskRows(req.input, rows)

\* the answers a request can get when it is served alone on `rows`, whatever the clock
answersAlone(req, rows) ==
    IF req.op = "updateTask"
    THEN {updateTaskAnswer(req.input, rows, t1, t2) : t1, t2 \in 0..MaxTime}
    ELSE {deleteTaskAnswer(req.input, rows)}

\* C16: two update or delete requests on different ids that arrive together do not
\* interfere: in whichever order they are served, each gets the answer it would get
\* served alone, and the table ends as after serving them one after the other, in
\* either order.
C16_DifferentIdsDoNotInterfere ==
    (inflight = {} /\ Cardinality(done) = 2)
        => \A x, y \in done :
               (x # y /\ x.req.input.id # y.req.input.id)
                   => /\ [status |-> x.status, value |-> x.value] \in answersAlone(x.req, snapshot)
                      /\ tasksTable = rowsAfter(y.req, rowsAfter(x.req, snapshot))

\* an update and a delete on two different stored tasks have both been answered
C16_Witness ==
    /\ inflight = {}
    /\ \E x, y \in done :
           /\ x.req.op = "updateTask"
           /\ x.req.input.completed
           /\ y.req.op = "deleteTask"
           /\ x.req.input.id # y.req.input.id
           /\ \E t \in snapshot : t.id = x.req.input.id
           /\ \E t \in snapshot : t.id = y.req.input.id

\* C17: when updateTask and deleteTask on the same stored id arrive together, the
\* outcome is that of one of the two serial orders: the delete answers {success: true}
\* and the row is gone, and the update either answered with the updated row (served
\* first) or failed with NotFoundError (served second).
C17_SameIdSerialOutcome ==
    inflight = {}
        => \A u, d \in done :
               (/\ u.req.op = "updateTask"
                /\ d.req.op = "deleteTask"
                /\ u.req.input.id = d.req.input.id
                /\ \E t \in snapshot : t.id = d.req.input.id)
                   => LET old == CHOOSE t \in snapshot : t.id = d.req.input.id IN
                      /\ d.status = "ok"
                      /\ d.value = [success |-> TRUE]
                      /\ ~stored(d.req.input.id)
                      /\ tasksTable = snapshot \ {old}
                      /\ \/ u.status = "NotFoundError"
                         \/ /\ u.status = "ok"
                            /\ u.value = [old EXCEPT !.completed = u.req.input.completed,
                                                     !.updated_at = u.value.updated_at]
\* the page's calls that are not handled yet
pending == {call \in calls : ~call.handled}

\* C15: a createTask, updateTask or deleteTask call of the page that rejects leaves the
\* page's task list as it was: the handler changes the list neither when it makes the
\* call nor when it handles the rejection; and a deleteTask call answered with
\* success false leaves the list as it was, the task still in it
C15_FailureLeavesListUnchanged ==
    [][/\ handleSubmit => tasks' = tasks
       /\ \A i \in 1..Len(tasks) :
            handleToggleComplete(i) \/ handleDeleteTask(i) => tasks' = tasks
       /\ \A call \in pending :
            /\ call.phase = "rejected"
               /\ \/ handleSubmitSettled(call)
                  \/ handleToggleCompleteSettled(call)
                  \/ handleDeleteTaskSettled(call)
               => tasks' = tasks
            /\ call.phase = "answered" /\ handleDeleteTaskSettled(call) /\ ~call.value.success
               => tasks' = tasks]_vars

\* a rejected mutation and a deleteTask answered with success false have both been
\* handled, and the task of that deleteTask is still listed
C15_Witness ==
    /\ \E call \in calls :
         /\ call.handled
         /\ call.op \in {"createTask", "updateTask", "deleteTask"}
         /\ call.phase = "rejected"
    /\ \E call \in calls :
         /\ call.handled
         /\ call.op = "deleteTask"
         /\ call.phase = "answered"
         /\ ~call.value.success
         /\ \E i \in 1..Len(tasks) : tasks[i].id = call.input.id
\* C20: once every call of the page has been answered and handled (none in flight,
\* none rejected), the page's list holds exactly the ids stored in the table, once
\* each, each with the stored completed value, newest first
C20_ClientAgreesWithServer ==
    (\A call \in calls : call.handled /\ call.phase = "answered")
    => /\ {tasks[i].id : i \in 1..Len(tasks)} = {t.id : t \in tasksTable}
       /\ Len(tasks) = Cardinality(tasksTable)
       /\ \A i \in 1..Len(tasks) : stored(tasks[i].id) => tasks[i].completed = row(tasks[i].id).completed
       /\ sortedByCreatedAt(tasks)
====
